---- MODULE Spec2Model ----
(***************************************************************************)
(* A model of share/solid_phys.c (Neverball): the swept-sphere collision   *)
(* tests, the BSP traversal, the body / switch / ball stepping and the     *)
(* sub-stepping integrator sol_step.                                       *)
(*                                                                         *)
(* Numbers.  The C code computes in IEEE single precision.  The model      *)
(* computes in exact rationals <<n, d>> (d > 0, lowest terms); a division  *)
(* by zero gives <<1, 0>>, <<-1, 0>> or <<0, 0>> (+inf, -inf, NaN) as the  *)
(* division of a finite number by +0.0 does.  Rounding and the sign of a   *)
(* zero are not modelled.  A square root is taken only of exact squares    *)
(* (the inputs are chosen so); any other root stops TLC with an error      *)
(* instead of being approximated.                                          *)
(***************************************************************************)
EXTENDS Integers, Sequences, FiniteSets, TLC

(***************************************************************************)
(* float arithmetic                                                        *)
(***************************************************************************)
Abs(x) ==
    IF x < 0 THEN -x ELSE x

Sgn(x) ==
    IF x < 0 THEN -1 ELSE IF x > 0 THEN 1 ELSE 0

RECURSIVE Gcd(_, _)
Gcd(a, b) ==
    IF b = 0 THEN a ELSE Gcd(b, a % b)

\* n / d for integers n, d: the float n/d (d = 0: an infinity or NaN).
F(n, d) ==
    IF d = 0 THEN <<Sgn(n), 0>>
    ELSE LET k == Gcd(Abs(n), Abs(d))
         IN  <<(Sgn(d) * n) \div k, Abs(d) \div k>>

I(n) ==
    <<n, 1>>

IsNaN(x) ==
    x[1] = 0 /\ x[2] = 0

IsFinite(x) ==
    x[2] # 0

fadd(x, y) ==
    F(x[1] * y[2] + y[1] * x[2], x[2] * y[2])

fsub(x, y) ==
    F(x[1] * y[2] - y[1] * x[2], x[2] * y[2])

fmul(x, y) ==
    F(x[1] * y[1], x[2] * y[2])

fdiv(x, y) ==
    F(x[1] * y[2], x[2] * y[1])

fneg(x) ==
    <<-x[1], x[2]>>

\* x < y and x <= y; false when either side is NaN.
flt(x, y) ==
    /\ ~IsNaN(x)
    /\ ~IsNaN(y)
    /\ IF x[2] = 0 /\ y[2] = 0 THEN x[1] < y[1] ELSE x[1] * y[2] < y[1] * x[2]

fle(x, y) ==
    /\ ~IsNaN(x)
    /\ ~IsNaN(y)
    /\ IF x[2] = 0 /\ y[2] = 0 THEN x[1] <= y[1] ELSE x[1] * y[2] <= y[1] * x[2]

fabsf(x) ==
    <<Abs(x[1]), x[2]>>

\* The exact integer square root of n, searched by bisection in lo..hi.
RECURSIVE RootIn(_, _, _)
RootIn(n, lo, hi) ==
    IF lo >= hi THEN lo
    ELSE LET mid == (lo + hi + 1) \div 2
         IN  IF mid * mid <= n THEN RootIn(n, mid, hi) ELSE RootIn(n, lo, mid - 1)

ISqrt(n) ==
    CHOOSE k \in {RootIn(n, 0, IF n < 46340 THEN n ELSE 46340)} : k * k = n

fsqrtf(x) ==
    <<ISqrt(x[1]), ISqrt(x[2])>>

(***************************************************************************)
(* vec3.h                                                                  *)
(***************************************************************************)
V3(x, y, z) ==
    <<I(x), I(y), I(z)>>

v_dot(u, v) ==
    fadd(fadd(fmul(u[1], v[1]), fmul(u[2], v[2])), fmul(u[3], v[3]))

v_add(u, v) ==
    <<fadd(u[1], v[1]), fadd(u[2], v[2]), fadd(u[3], v[3])>>

v_sub(u, v) ==
    <<fsub(u[1], v[1]), fsub(u[2], v[2]), fsub(u[3], v[3])>>

v_scl(v, k) ==
    <<fmul(v[1], k), fmul(v[2], k), fmul(v[3], k)>>

\* v_mad(u, p, v, t): u = p + v * t
v_mad(p, v, t) ==
    v_add(p, v_scl(v, t))

v_crs(u, v) ==
    <<fsub(fmul(u[2], v[3]), fmul(u[3], v[2])),
      fsub(fmul(u[3], v[1]), fmul(u[1], v[3])),
      fsub(fmul(u[1], v[2]), fmul(u[2], v[1]))>>

v_len(v) ==
    fsqrtf(v_dot(v, v))

\* v_nrm: the unit vector of v, the zero vector for a zero v.
v_nrm(v) ==
    LET l == v_len(v)
    IN  IF l = I(0) THEN <<I(0), I(0), I(0)>>
        ELSE <<fdiv(v[1], l), fdiv(v[2], l), fdiv(v[3], l)>>

\* A C array: indices 0 .. n-1.
Arr(s) ==
    [i \in 0..(Len(s) - 1) |-> s[i + 1]]

(***************************************************************************)
(* The level's immutable geometry (struct s_file: vv, ev, sv, lv, nv, iv). *)
(* Body 0 is a static floor y <= 0, split by the plane x = 0 into a right  *)
(* and a left lump that share the seam edge (0,0,-10)-(0,0,10).  Body 1 is *)
(* a moving ceiling: the half-space y >= 0 of its own frame, in front of   *)
(* the splitting plane y = 0.  Lump 0 is a detail (non-solid) lump.  Node  *)
(* 5 is a floor of one unsplit lump, the half-space y <= 0.                *)
(***************************************************************************)
LARGE ==
    100000

L_DETAIL ==
    1

vv ==
    Arr(<<[p |-> V3(0, 0, -10)], [p |-> V3(0, 0, 10)]>>)

ev ==
    Arr(<<[vi |-> 0, vj |-> 1]>>)

sv ==
    Arr(<<[n |-> V3(0, 1, 0), d |-> I(0)],
          [n |-> V3(1, 0, 0), d |-> I(0)],
          [n |-> V3(-1, 0, 0), d |-> I(0)],
          [n |-> V3(0, -1, 0), d |-> I(0)]>>)

iv ==
    Arr(<<0, 1, 0, 0, 2, 0, 1, 3>>)

lv ==
    Arr(<<[fl |-> L_DETAIL, v0 |-> 0, vc |-> 0, e0 |-> 0, ec |-> 0, s0 |-> 3, sc |-> 1],
          [fl |-> 0, v0 |-> 0, vc |-> 2, e0 |-> 2, ec |-> 1, s0 |-> 3, sc |-> 2],
          [fl |-> 0, v0 |-> 0, vc |-> 2, e0 |-> 2, ec |-> 1, s0 |-> 5, sc |-> 2],
          [fl |-> 0, v0 |-> 0, vc |-> 0, e0 |-> 0, ec |-> 0, s0 |-> 7, sc |-> 1],
          [fl |-> 0, v0 |-> 0, vc |-> 0, e0 |-> 0, ec |-> 0, s0 |-> 3, sc |-> 1]>>)

nv ==
    Arr(<<[si |-> 1, ni |-> 1, nj |-> 2, l0 |-> 0, lc |-> 1],
          [si |-> 0, ni |-> -1, nj |-> -1, l0 |-> 1, lc |-> 1],
          [si |-> 0, ni |-> -1, nj |-> -1, l0 |-> 2, lc |-> 1],
          [si |-> 0, ni |-> 4, nj |-> -1, l0 |-> 3, lc |-> 0],
          [si |-> 0, ni |-> -1, nj |-> -1, l0 |-> 3, lc |-> 1],
          [si |-> 0, ni |-> -1, nj |-> -1, l0 |-> 4, lc |-> 1]>>)

\* A test's result: the time t and the contact point T (T is meaningful only
\* when the caller finds t below its window; NoT stands for "not written").
NoT ==
    V3(0, 0, 0)

Hit(t, T) ==
    [t |-> t, T |-> T]

(***************************************************************************)
(* Primitive tests                                                         *)
(***************************************************************************)
\* The element of the singleton S.  The({e(x) : x \in {d}}) is e(x) for the
\* value x of d, worked out once, before e uses it.
The(S) ==
    CHOOSE x \in S : TRUE

v_sol(p, v, r) ==
    LET roots(a, b, d) ==
            IF flt(d, I(0)) THEN I(LARGE)
            ELSE IF flt(I(0), d)
            THEN LET t0 == fdiv(fmul(F(1, 2), fsub(fneg(b), fsqrtf(d))), a)
                     t1 == fdiv(fmul(F(1, 2), fadd(fneg(b), fsqrtf(d))), a)
                     t  == IF flt(t0, t1) THEN t0 ELSE t1
                 IN  IF flt(t, I(0)) THEN I(LARGE) ELSE t
            ELSE fdiv(fmul(fneg(b), F(1, 2)), a)
        discr(a, b, c) ==
            The({roots(a, b, d) : d \in {fsub(fmul(b, b), fmul(fmul(I(4), a), c))}})
    IN  The({discr(a, b, c) : a \in {v_dot(v, v)},
                              b \in {fmul(v_dot(v, p), I(2))},
                              c \in {fsub(v_dot(p, p), fmul(r, r))}})

v_vert(o, q, w, p, v, r) ==
    LET O == v_add(o, q)
        at(t) ==
            IF flt(t, I(LARGE)) THEN Hit(t, v_mad(O, w, t)) ELSE Hit(t, NoT)
        sol(P, V) ==
            IF flt(v_dot(P, V), I(0))
            THEN The({at(t) : t \in {v_sol(P, V, r)}})
            ELSE Hit(I(LARGE), NoT)
    IN  The({sol(P, V) : P \in {v_sub(p, O)}, V \in {v_sub(v, w)}})

v_edge(o, q, u, w, p, v, r) ==
    LET d  == v_sub(v_sub(p, o), q)
        e  == v_sub(v, w)
        du == v_dot(d, u)
        eu == v_dot(e, u)
        uu == v_dot(u, u)
        at(t) ==
            LET s == fdiv(fadd(du, fmul(eu, t)), uu)
            IN  IF fle(I(0), t) /\ flt(t, I(LARGE)) /\ flt(I(0), s) /\ flt(s, I(1))
                THEN Hit(t, v_add(v_mad(q, u, s), v_mad(o, w, t)))
                ELSE Hit(I(LARGE), NoT)
        sol(P, V) ==
            The({at(t) : t \in {v_sol(P, V, r)}})
    IN  The({sol(P, V) : P \in {v_mad(d, u, fdiv(fneg(du), uu))},
                         V \in {v_mad(e, u, fdiv(fneg(eu), uu))}})

\* v_side reporting the sphere's centre at the contact, without the step of
\* -r along the normal.
v_side_centre(o, w, n, d, p, v, r) ==
    LET vn == v_dot(v, n)
        wn == v_dot(w, n)
        on == v_dot(o, n)
        pn == v_dot(p, n)
        u  == fdiv(fsub(fadd(fadd(r, d), on), pn), fsub(vn, wn))
        a  == fdiv(fsub(fadd(d, on), pn), fsub(vn, wn))
    IN  IF fle(fsub(vn, wn), I(0))
        THEN IF fle(I(0), u)
             THEN Hit(u, IF IsFinite(u) THEN v_mad(p, v, u) ELSE NoT)
             ELSE IF fle(I(0), a)
             THEN Hit(I(0), v_mad(p, v, I(0)))
             ELSE Hit(I(LARGE), NoT)
        ELSE Hit(I(LARGE), NoT)

v_side(o, w, n, d, p, v, r) ==
    LET vn == v_dot(v, n)
        wn == v_dot(w, n)
        on == v_dot(o, n)
        pn == v_dot(p, n)
        u  == fdiv(fsub(fadd(fadd(r, d), on), pn), fsub(vn, wn))
        a  == fdiv(fsub(fadd(d, on), pn), fsub(vn, wn))
    IN  IF fle(fsub(vn, wn), I(0))
        THEN IF fle(I(0), u)
             THEN Hit(u, IF IsFinite(u) THEN v_mad(v_mad(p, v, u), n, fneg(r)) ELSE NoT)
             ELSE IF fle(I(0), a)
             THEN Hit(I(0), v_mad(v_mad(p, v, I(0)), n, fneg(r)))
             ELSE Hit(I(LARGE), NoT)
        ELSE Hit(I(LARGE), NoT)

(***************************************************************************)
(* Body motion.  fp is the mutable part of struct s_file: the paths pv,    *)
(* the switches xv, the bodies bv and the balls uv, each a C array.        *)
(***************************************************************************)
erp(t) ==
    fsub(fmul(fmul(I(3), t), t), fmul(fmul(fmul(I(2), t), t), t))

derp(t) ==
    fsub(fmul(I(6), t), fmul(fmul(I(6), t), t))

sol_body_v(fp, bp) ==
    IF bp.pi >= 0 /\ fp.pv[bp.pi].f # 0
    THEN LET pp == fp.pv[bp.pi]
             pq == fp.pv[pp.pi]
             v  == v_scl(v_sub(pq.p, pp.p), fdiv(I(1), pp.t))
         IN  IF pp.s # 0 THEN v_scl(v, derp(fdiv(bp.t, pp.t))) ELSE v
    ELSE V3(0, 0, 0)

\* sol_body_p with sol_body_v's test of the path's f flag: a disabled path
\* gives the path point's own position.
sol_body_p_tests_f(fp, bp) ==
    IF bp.pi >= 0
    THEN LET pp == fp.pv[bp.pi]
             pq == fp.pv[pp.pi]
             v  == v_sub(pq.p, pp.p)
         IN  IF pp.f = 0
             THEN pp.p
             ELSE IF pp.s # 0
                  THEN v_mad(pp.p, v, erp(fdiv(bp.t, pp.t)))
                  ELSE v_mad(pp.p, v, fdiv(bp.t, pp.t))
    ELSE V3(0, 0, 0)

sol_body_p(fp, bp) ==
    IF bp.pi >= 0
    THEN LET pp == fp.pv[bp.pi]
             pq == fp.pv[pp.pi]
             v  == v_sub(pq.p, pp.p)
         IN  IF pp.s # 0
             THEN v_mad(pp.p, v, erp(fdiv(bp.t, pp.t)))
             ELSE v_mad(pp.p, v, fdiv(bp.t, pp.t))
    ELSE V3(0, 0, 0)

(***************************************************************************)
(* Lump, node, body and file tests                                         *)
(***************************************************************************)
\* The C idiom  if ((u = test(...)) < t) { T = U; t = u; }  with acc the
\* running (t, T) and h the test's result.
Better(acc, h) ==
    IF ~IsNaN(acc.t) /\ flt(h.t, acc.t) THEN h ELSE acc

\* The idiom applied to the running result acc and the test Test(t) made
\* within the time acc.t.
Try(acc, Test(_)) ==
    The({Better(acc, h) : h \in {Test(acc.t)}})

sol_test_vert(dt, up, vp, o, w) ==
    v_vert(o, vp.p, w, up.p, up.v, up.r)

sol_test_edge(dt, up, ep, o, w) ==
    LET q == vv[ep.vi].p
        u == v_sub(vv[ep.vj].p, vv[ep.vi].p)
    IN  v_edge(o, q, u, w, up.p, up.v, up.r)

\* si is the index of the side sp in sv (sp != sq compares the pointers).
sol_test_side(dt, up, lp, si, o, w) ==
    LET sp == sv[si]
        outside(h, i) ==
            LET sq == sv[iv[lp.s0 + i]]
            IN  /\ iv[lp.s0 + i] # si
                /\ flt(sq.d, fsub(fsub(v_dot(h.T, sq.n), v_dot(o, sq.n)),
                                   fmul(v_dot(w, sq.n), h.t)))
        valid(h) ==
            IF flt(h.t, dt) /\ \E i \in 0..(lp.sc - 1) : outside(h, i)
            THEN Hit(I(LARGE), h.T)
            ELSE h
    IN  The({valid(h) : h \in {v_side(o, w, sp.n, sp.d, up.p, up.v, up.r)}})

sol_test_fore(dt, up, sp, o, w) ==
    LET q  == v_sub(up.p, o)
        q2 == v_mad(q, up.v, dt)
    IN  IF fle(I(0), fadd(fsub(v_dot(q, sp.n), sp.d), up.r)) THEN 1
        ELSE IF fle(I(0), fadd(fsub(v_dot(q2, sp.n), sp.d), up.r)) THEN 1
        ELSE 0

sol_test_back(dt, up, sp, o, w) ==
    LET q  == v_sub(up.p, o)
        q2 == v_mad(q, up.v, dt)
    IN  IF fle(fsub(fsub(v_dot(q, sp.n), sp.d), up.r), I(0)) THEN 1
        ELSE IF fle(fsub(fsub(v_dot(q2, sp.n), sp.d), up.r), I(0)) THEN 1
        ELSE 0

\* The three loops of sol_test_lump: the running result after the first n
\* vertices, edges or sides of the lump, t0 the result before the loop.
RECURSIVE lump_verts(_, _, _, _, _, _)
lump_verts(n, t0, up, lp, o, w) ==
    IF n = 0 THEN t0
    ELSE The({Try(acc, LAMBDA t : sol_test_vert(t, up, vv[iv[lp.v0 + n - 1]], o, w)) :
                  acc \in {lump_verts(n - 1, t0, up, lp, o, w)}})

RECURSIVE lump_edges(_, _, _, _, _, _)
lump_edges(n, t0, up, lp, o, w) ==
    IF n = 0 THEN t0
    ELSE The({Try(acc, LAMBDA t : sol_test_edge(t, up, ev[iv[lp.e0 + n - 1]], o, w)) :
                  acc \in {lump_edges(n - 1, t0, up, lp, o, w)}})

RECURSIVE lump_sides(_, _, _, _, _, _)
lump_sides(n, t0, up, lp, o, w) ==
    IF n = 0 THEN t0
    ELSE The({Try(acc, LAMBDA t : sol_test_side(t, up, lp, iv[lp.s0 + n - 1], o, w)) :
                  acc \in {lump_sides(n - 1, t0, up, lp, o, w)}})

sol_test_lump(dt, up, lp, o, w) ==
    LET verts(acc) ==
            IF flt(I(0), up.r) THEN lump_verts(lp.vc, acc, up, lp, o, w) ELSE acc
        edges(acc) ==
            IF flt(I(0), up.r) THEN lump_edges(lp.ec, acc, up, lp, o, w) ELSE acc
        sides(acc) ==
            lump_sides(lp.sc, acc, up, lp, o, w)
    IN  IF (lp.fl \div L_DETAIL) % 2 = 1 THEN Hit(dt, NoT)
        ELSE The({sides(t2) : t2 \in {The({edges(t1) : t1 \in {verts(Hit(dt, NoT))}})}})

\* The loop of sol_test_node over the first n lumps of the node.
RECURSIVE node_lumps(_, _, _, _, _, _)
node_lumps(n, t0, up, np, o, w) ==
    IF n = 0 THEN t0
    ELSE The({Try(acc, LAMBDA t : sol_test_lump(t, up, lv[np.l0 + n - 1], o, w)) :
                  acc \in {node_lumps(n - 1, t0, up, np, o, w)}})

RECURSIVE sol_test_node(_, _, _, _, _)
sol_test_node(dt, up, np, o, w) ==
    LET fore(acc) ==
            IF np.ni >= 0 /\ sol_test_fore(acc.t, up, sv[np.si], o, w) = 1
            THEN Try(acc, LAMBDA t : sol_test_node(t, up, nv[np.ni], o, w))
            ELSE acc
        back(acc) ==
            IF np.nj >= 0 /\ sol_test_back(acc.t, up, sv[np.si], o, w) = 1
            THEN Try(acc, LAMBDA t : sol_test_node(t, up, nv[np.nj], o, w))
            ELSE acc
    IN  The({back(t2) : t2 \in {The({fore(t1) :
                 t1 \in {node_lumps(np.lc, Hit(dt, NoT), up, np, o, w)}})}})

\* A body or file test's result also carries the velocity V of the body hit.
HitV(h, V) ==
    [t |-> h.t, T |-> h.T, V |-> V]

sol_test_body(dt, up, fp, bp) ==
    LET found(h, W) ==
            IF flt(h.t, dt) THEN HitV(h, W) ELSE HitV(Hit(dt, NoT), NoT)
        node(O, W) ==
            The({found(h, W) : h \in {sol_test_node(dt, up, nv[bp.ni], O, W)}})
    IN  The({node(O, W) : O \in {sol_body_p(fp, bp)}, W \in {sol_body_v(fp, bp)}})

\* The loop of sol_test_file over the first n bodies of the level.
RECURSIVE file_bodies(_, _, _, _)
file_bodies(n, t0, up, fp) ==
    IF n = 0 THEN t0
    ELSE The({Try(acc, LAMBDA t : sol_test_body(t, up, fp, fp.bv[n - 1])) :
                  acc \in {file_bodies(n - 1, t0, up, fp)}})

sol_test_file(dt, up, fp) ==
    file_bodies(Cardinality(DOMAIN fp.bv), HitV(Hit(dt, NoT), NoT), up, fp)

(***************************************************************************)
(* State                                                                   *)
(***************************************************************************)
VARIABLES
    fp,     \* struct s_file: [pv, xv, bv, uv], the level's mutable arrays
    pc,     \* where the caller is: "idle", or inside sol_step at "loop"
    loc,    \* sol_step's parameters and locals while a call is in progress
    probe,  \* the arguments and result of the last collision test probed
    obs     \* what the last completed operation did and returned

vars ==
    <<fp, pc, loc, probe, obs>>

Path(p, t, s, f, pi) ==
    [p |-> p, t |-> t, s |-> s, f |-> f, pi |-> pi]

Swch(p, r, pi, t0, t, f0, f, i, e) ==
    [p |-> p, r |-> r, pi |-> pi, t0 |-> t0, t |-> t, f0 |-> f0, f |-> f, i |-> i, e |-> e]

Body(pi, t, ni) ==
    [pi |-> pi, t |-> t, ni |-> ni]

\* e is the rotation the basis has undergone, E the pendulum's state (basis
\* and angular velocity); see sol_rotate and sol_pendulum.
Ball(p, v, r) ==
    [p |-> p, v |-> v, r |-> r, e |-> <<>>, w |-> V3(0, 0, 0), E |-> <<>>]

NoLoc ==
    [ui |-> 0, g |-> V3(0, 0, 0), dt |-> I(0), m |-> <<>>,
     c |-> 0, tt |-> I(0), b |-> I(0), a |-> V3(0, 0, 0), log |-> <<>>]

NoProbe ==
    [kind |-> "none"]

NoObs ==
    [op |-> "none"]

(***************************************************************************)
(* Stepping the switches, the bodies and the balls                         *)
(***************************************************************************)
SWCH_HEIGHT ==
    2

\* The traverser with the hare advanced once per iteration, like the tortoise.
RECURSIVE cycle_loop_hare_once(_, _, _, _, _, _)
cycle_loop_hare_once(pvv, pi, pj, val, n, w) ==
    LET pv1 == [[pvv EXCEPT ![pi].f = val] EXCEPT ![pj].f = val]
        pi1 == pv1[pi].pi
        pj1 == pv1[pj].pi
    IN  IF pi1 # pj1
        THEN cycle_loop_hare_once(pv1, pi1, pj1, val, n + 1, w \cup {pi, pj})
        ELSE [pv |-> pv1, n |-> n + 1, w |-> w \cup {pi, pj}]

\* The tortoise and hare cycle traverser: do { ... } while (pi != pj), from
\* pi = pj = start.  n counts the iterations made so far and w collects the
\* indices written; the result is the paths, n and w when the loop ends.
RECURSIVE cycle_loop(_, _, _, _, _, _)
cycle_loop(pvv, pi, pj, val, n, w) ==
    LET pv1 == [[pvv EXCEPT ![pi].f = val] EXCEPT ![pj].f = val]
        pi1 == pv1[pi].pi
        pj1 == pv1[pv1[pj].pi].pi
    IN  IF pi1 # pj1
        THEN cycle_loop(pv1, pi1, pj1, val, n + 1, w \cup {pi, pj})
        ELSE [pv |-> pv1, n |-> n + 1, w |-> w \cup {pi, pj}]

cycle_traverse(pvv, start, val) ==
    cycle_loop(pvv, start, start, val, 0, {})

\* What one turn of a loop over the switches did to switch xi: its state
\* before and after, and, when it wrote its cycle (hit), the value written,
\* the traverser's iterations n and the indices w it wrote.
SwchEvent(xi, pre, post, hit, val, n, w) ==
    [xi |-> xi, pre |-> pre, post |-> post, hit |-> hit, val |-> val, n |-> n, w |-> w]

\* The body of sol_swch_step's loop without the test xp->t > 0.
swch_step_one_unguarded(f, xi, dt) ==
    LET xp == f.xv[xi]
        t1 == fsub(xp.t, dt)
    IN  IF fle(t1, I(0))
        THEN LET c  == cycle_traverse(f.pv, xp.pi, xp.f0)
                 xq == [xp EXCEPT !.t = t1, !.f = xp.f0]
             IN  [fp |-> [f EXCEPT !.pv = c.pv, !.xv[xi] = xq],
                  ev |-> SwchEvent(xi, xp, xq, TRUE, xp.f0, c.n, c.w)]
        ELSE LET xq == [xp EXCEPT !.t = t1]
             IN  [fp |-> [f EXCEPT !.xv[xi] = xq],
                  ev |-> SwchEvent(xi, xp, xq, FALSE, 0, 0, {})]

\* The body of sol_swch_step's loop, for switch xi.
swch_step_one(f, xi, dt) ==
    LET xp == f.xv[xi]
        t1 == fsub(xp.t, dt)
    IN  IF flt(I(0), xp.t)
        THEN IF fle(t1, I(0))
             THEN LET c  == cycle_traverse(f.pv, xp.pi, xp.f0)
                      xq == [xp EXCEPT !.t = t1, !.f = xp.f0]
                  IN  [fp |-> [f EXCEPT !.pv = c.pv, !.xv[xi] = xq],
                       ev |-> SwchEvent(xi, xp, xq, TRUE, xp.f0, c.n, c.w)]
             ELSE LET xq == [xp EXCEPT !.t = t1]
                  IN  [fp |-> [f EXCEPT !.xv[xi] = xq],
                       ev |-> SwchEvent(xi, xp, xq, FALSE, 0, 0, {})]
        ELSE [fp |-> f, ev |-> SwchEvent(xi, xp, xp, FALSE, 0, 0, {})]

\* sol_swch_step: the level after the loop, and the events of its turns.
RECURSIVE swch_step_loop(_, _, _)
swch_step_loop(n, f, dt) ==
    IF n = 0 THEN [fp |-> f, evs |-> <<>>]
    ELSE LET turn(acc) ==
                 The({[fp |-> one.fp, evs |-> Append(acc.evs, one.ev)] :
                          one \in {swch_step_one(acc.fp, n - 1, dt)}})
         IN  The({turn(acc) : acc \in {swch_step_loop(n - 1, f, dt)}})

sol_swch_step(f, dt) ==
    swch_step_loop(Cardinality(DOMAIN f.xv), f, dt)

\* The body of sol_body_step's loop with bp->t > pp->t for bp->t >= pp->t.
body_step_one_strict(f, bp, dt) ==
    IF bp.pi >= 0 /\ f.pv[bp.pi].f # 0
    THEN LET pp == f.pv[bp.pi]
             t1 == fadd(bp.t, dt)
         IN  IF flt(pp.t, t1)
             THEN [bp EXCEPT !.t = I(0), !.pi = pp.pi]
             ELSE [bp EXCEPT !.t = t1]
    ELSE bp

\* The body of sol_body_step's loop, for body bp.
body_step_one(f, bp, dt) ==
    IF bp.pi >= 0 /\ f.pv[bp.pi].f # 0
    THEN LET pp == f.pv[bp.pi]
             t1 == fadd(bp.t, dt)
         IN  IF fle(pp.t, t1)
             THEN [bp EXCEPT !.t = I(0), !.pi = pp.pi]
             ELSE [bp EXCEPT !.t = t1]
    ELSE bp

sol_body_step(f, dt) ==
    [f EXCEPT !.bv = [i \in DOMAIN f.bv |-> body_step_one(f, f.bv[i], dt)]]

\* sol_rotate.  The basis is kept as the list of the rotations <<w, angle / |w|>>
\* applied to the initial basis; a further rotation about the same w adds
\* to the last entry, and a rotation through the angle 0 changes nothing
\* (m_rot gives the identity matrix and the basis is already orthonormal).
sol_rotate(e, w, dt) ==
    IF flt(I(0), v_dot(w, w)) /\ dt # I(0)
    THEN IF e # <<>> /\ e[Len(e)][1] = w
         THEN [e EXCEPT ![Len(e)] = <<w, fadd(e[Len(e)][2], dt)>>]
         ELSE Append(e, <<w, dt>>)
    ELSE e

ball_step_one(up, dt) ==
    [up EXCEPT !.p = v_mad(up.p, up.v, dt), !.e = sol_rotate(up.e, up.w, dt)]

\* sol_ball_step moving the first ball only.
sol_ball_step_first(f, dt) ==
    [f EXCEPT !.uv = [i \in DOMAIN f.uv |->
                         IF i = 0 THEN ball_step_one(f.uv[i], dt) ELSE f.uv[i]]]

sol_ball_step(f, dt) ==
    [f EXCEPT !.uv = [i \in DOMAIN f.uv |-> ball_step_one(f.uv[i], dt)]]

(***************************************************************************)
(* sol_swch_test                                                           *)
(***************************************************************************)
\* l = v_len(r) - xp->r, r the horizontal offset of the ball from the switch.
swch_l(xp, up) ==
    LET r == <<fsub(up.p[1], xp.p[1]), fsub(up.p[3], xp.p[3]), I(0)>>
    IN  fsub(v_len(r), xp.r)

\* The outer test with the entry test's radius: l < -ball_r.
swch_near_entry_radius(xp, up) ==
    /\ flt(swch_l(xp, up), fneg(up.r))
    /\ flt(xp.p[2], up.p[2])
    /\ flt(up.p[2], fadd(xp.p[2], F(SWCH_HEIGHT, 2)))

\* The outer test of line 929: inside the volume grown by the ball's radius.
swch_near(xp, up) ==
    /\ flt(swch_l(xp, up), up.r)
    /\ flt(xp.p[2], up.p[2])
    /\ flt(up.p[2], fadd(xp.p[2], F(SWCH_HEIGHT, 2)))

\* The body of sol_swch_test's loop with res set by every toggle.
swch_test_one_any_res(f, xi, ui, res) ==
    LET xp == f.xv[xi]
        up == f.uv[ui]
        keep == [fp |-> f, res |-> res, ev |-> SwchEvent(xi, xp, xp, FALSE, 0, 0, {})]
    IN  IF xp.t0 = I(0) \/ xp.f = xp.f0
        THEN IF swch_near(xp, up)
             THEN IF xp.e = 0 /\ flt(swch_l(xp, up), fneg(up.r))
                  THEN LET nf == IF xp.f # 0 THEN 0 ELSE 1
                           c  == cycle_traverse(f.pv, xp.pi, nf)
                           xq == [xp EXCEPT !.e = IF xp.t0 = I(0) THEN 1 ELSE xp.e,
                                            !.f = nf,
                                            !.t = IF nf # xp.f0 THEN xp.t0 ELSE xp.t]
                       IN  [fp |-> [f EXCEPT !.pv = c.pv, !.xv[xi] = xq],
                            res |-> 1,
                            ev |-> SwchEvent(xi, xp, xq, TRUE, nf, c.n, c.w)]
                  ELSE keep
             ELSE IF xp.e # 0
                  THEN LET xq == [xp EXCEPT !.e = 0]
                       IN  [fp |-> [f EXCEPT !.xv[xi] = xq], res |-> res,
                            ev |-> SwchEvent(xi, xp, xq, FALSE, 0, 0, {})]
                  ELSE keep
        ELSE keep

\* The body of sol_swch_test's loop with e set by every toggle, whatever t0.
swch_test_one_sets_e(f, xi, ui, res) ==
    LET xp == f.xv[xi]
        up == f.uv[ui]
        keep == [fp |-> f, res |-> res, ev |-> SwchEvent(xi, xp, xp, FALSE, 0, 0, {})]
    IN  IF xp.t0 = I(0) \/ xp.f = xp.f0
        THEN IF swch_near(xp, up)
             THEN IF xp.e = 0 /\ flt(swch_l(xp, up), fneg(up.r))
                  THEN LET nf == IF xp.f # 0 THEN 0 ELSE 1
                           c  == cycle_traverse(f.pv, xp.pi, nf)
                           xq == [xp EXCEPT !.e = 1,
                                            !.f = nf,
                                            !.t = IF nf # xp.f0 THEN xp.t0 ELSE xp.t]
                       IN  [fp |-> [f EXCEPT !.pv = c.pv, !.xv[xi] = xq],
                            res |-> IF xp.i = 0 THEN 1 ELSE res,
                            ev |-> SwchEvent(xi, xp, xq, TRUE, nf, c.n, c.w)]
                  ELSE keep
             ELSE IF xp.e # 0
                  THEN LET xq == [xp EXCEPT !.e = 0]
                       IN  [fp |-> [f EXCEPT !.xv[xi] = xq], res |-> res,
                            ev |-> SwchEvent(xi, xp, xq, FALSE, 0, 0, {})]
                  ELSE keep
        ELSE keep

\* The body of sol_swch_test's loop, for switch xi and ball ui.
swch_test_one(f, xi, ui, res) ==
    LET xp == f.xv[xi]
        up == f.uv[ui]
        keep == [fp |-> f, res |-> res, ev |-> SwchEvent(xi, xp, xp, FALSE, 0, 0, {})]
    IN  IF xp.t0 = I(0) \/ xp.f = xp.f0
        THEN IF swch_near(xp, up)
             THEN IF xp.e = 0 /\ flt(swch_l(xp, up), fneg(up.r))
                  THEN LET nf == IF xp.f # 0 THEN 0 ELSE 1
                           c  == cycle_traverse(f.pv, xp.pi, nf)
                           xq == [xp EXCEPT !.e = IF xp.t0 = I(0) THEN 1 ELSE xp.e,
                                            !.f = nf,
                                            !.t = IF nf # xp.f0 THEN xp.t0 ELSE xp.t]
                       IN  [fp |-> [f EXCEPT !.pv = c.pv, !.xv[xi] = xq],
                            res |-> IF xp.i = 0 THEN 1 ELSE res,
                            ev |-> SwchEvent(xi, xp, xq, TRUE, nf, c.n, c.w)]
                  ELSE keep
             ELSE IF xp.e # 0
                  THEN LET xq == [xp EXCEPT !.e = 0]
                       IN  [fp |-> [f EXCEPT !.xv[xi] = xq], res |-> res,
                            ev |-> SwchEvent(xi, xp, xq, FALSE, 0, 0, {})]
                  ELSE keep
        ELSE keep

\* sol_swch_test: the level after the loop, the value returned and the events.
RECURSIVE swch_test_loop(_, _, _)
swch_test_loop(n, f, ui) ==
    IF n = 0 THEN [fp |-> f, res |-> 0, evs |-> <<>>]
    ELSE LET turn(acc) ==
                 The({[fp |-> one.fp, res |-> one.res, evs |-> Append(acc.evs, one.ev)] :
                          one \in {swch_test_one(acc.fp, n - 1, ui, acc.res)}})
         IN  The({turn(acc) : acc \in {swch_test_loop(n - 1, f, ui)}})

sol_swch_test(f, ui) ==
    swch_test_loop(Cardinality(DOMAIN f.xv), f, ui)

(***************************************************************************)
(* sol_bounce, sol_pendulum and the friction phase of sol_step             *)
(***************************************************************************)
\* sol_bounce with the factor 2 of a perfectly elastic reflection for 1.7.
sol_bounce_elastic(up, q, w) ==
    LET r  == v_sub(up.p, q)
        d  == v_sub(up.v, w)
        n  == v_nrm(r)
        vn == v_dot(up.v, n)
        wn == v_dot(w, n)
    IN  [up |-> [up EXCEPT !.w = v_scl(v_crs(d, r), fdiv(I(-1), fmul(up.r, up.r))),
                           !.v = v_mad(up.v, n, fmul(I(2), fsub(wn, vn))),
                           !.p = v_mad(q, n, up.r)],
         d  |-> fabsf(v_dot(n, d))]

\* sol_bounce: the ball after the impact at q on a surface moving at w, and
\* the value returned.
sol_bounce(up, q, w) ==
    LET r  == v_sub(up.p, q)
        d  == v_sub(up.v, w)
        n  == v_nrm(r)
        vn == v_dot(up.v, n)
        wn == v_dot(w, n)
    IN  [up |-> [up EXCEPT !.w = v_scl(v_crs(d, r), fdiv(I(-1), fmul(up.r, up.r))),
                           !.v = v_mad(up.v, n, fmul(F(17, 10), fsub(wn, vn))),
                           !.p = v_mad(q, n, up.r)],
         d  |-> fabsf(v_dot(n, d))]

\* sol_pendulum.  The pendulum's basis and angular velocity come from m_rot
\* and are not needed as numbers: E is kept as the list of the arguments
\* (acceleration, gravity, dt, ball velocity) of the calls that shaped it.
sol_pendulum(up, a, g, dt) ==
    [up EXCEPT !.E = Append(up.E, [a |-> a, g |-> g, dt |-> dt, v |-> up.v])]

\* The start of sol_step for a valid ball: the ball and *m after friction or
\* gravity has been applied to the velocity.  m is <<>> for a null pointer
\* and <<k>> for a pointer to a counter holding k.
sol_step_friction(f, ui, g, dt, m) ==
    LET up   == f.uv[ui]
        v    == up.v
        e    == fsub(v_len(v), dt)
        v1   == v_scl(v_nrm(v), e)
        free == [up |-> [up EXCEPT !.v = v_mad(v, g, dt)], m |-> m]
        contact(h) ==
            LET r == v_sub(h.T, up.p)
                d == fdiv(v_dot(r, g), fmul(v_len(r), v_len(g)))
            IN  IF flt(h.t, F(1, 2000))
                THEN IF flt(F(999, 1000), d)
                     THEN IF flt(I(0), e)
                          THEN [up |-> [up EXCEPT
                                           !.v = v1,
                                           !.w = v_scl(v_crs(v_sub(h.V, v1), r),
                                                       fdiv(I(-1), fmul(up.r, up.r)))],
                                m  |-> m]
                          ELSE [up |-> [up EXCEPT !.v = V3(0, 0, 0)],
                                m  |-> <<m[1] + 1>>]
                     ELSE free
                ELSE free
    IN  IF m # <<>>
        THEN The({contact(h) : h \in {sol_test_file(dt, [up EXCEPT !.v = g], f)}})
        ELSE free

(***************************************************************************)
(* SpecGeom: the collision tests as functions of their arguments.          *)
(***************************************************************************)
MaxProbeDt ==
    3

\* The moving ceiling's path: from y = 8 down to y = -4 in 4 s and back.
GeomPaths(s, f) ==
    Arr(<<Path(V3(0, 8, 0), I(4), s, f, 1), Path(V3(0, -4, 0), I(4), s, f, 0)>>)

GeomSwch ==
    Arr(<<Swch(V3(3, 0, 0), I(3), 0, I(0), I(0), 1, 1, 0, 0)>>)

ProbeBalls ==
    {Ball(V3(0, 1, 0), V3(0, -1, 0), F(1, 10))}
    \cup {Ball(p, v, I(1)) : p \in {V3(3, 1, 0), V3(3, 3, 0), V3(-3, 3, 0), V3(0, 3, 0)},
                              v \in {V3(0, 0, 0), V3(0, -1, 0), V3(0, 2, 0), V3(-1, 0, 0)}}

InitGeom ==
    /\ \E s \in {0, 1}, f \in {0, 1}, t \in {0, 1, 2}, u \in ProbeBalls :
           fp = [pv |-> GeomPaths(s, f),
                 xv |-> GeomSwch,
                 bv |-> Arr(<<Body(-1, I(0), 0), Body(0, I(t), 3)>>),
                 uv |-> Arr(<<u>>)]
    /\ pc = "idle"
    /\ loc = NoLoc
    /\ probe = NoProbe
    /\ obs = NoObs

RECURSIVE SubtreeLumps(_)
SubtreeLumps(ni) ==
    IF ni < 0 THEN {}
    ELSE LET np == nv[ni]
         IN  {np.l0 + i : i \in 0..(np.lc - 1)}
             \cup SubtreeLumps(np.ni) \cup SubtreeLumps(np.nj)

FMin(S) ==
    CHOOSE x \in S : \A y \in S : fle(x, y)

\* Every lump of the subtree tested on its own over the whole window dt.
BruteForce(dt, up, ni, o, w) ==
    FMin({dt} \cup {sol_test_lump(dt, up, lv[li], o, w).t : li \in SubtreeLumps(ni)})

\* sol_test_node from the root of body bi, in that body's frame.
NodeProbe(bi, dt) ==
    /\ pc = "idle"
    /\ probe.kind = "none"
    /\ LET bp == fp.bv[bi]
           up == fp.uv[0]
           O  == sol_body_p(fp, bp)
           W  == sol_body_v(fp, bp)
       IN  probe' = [kind |-> "node", bi |-> bi, dt |-> I(dt), o |-> O, w |-> W,
                     t |-> sol_test_node(I(dt), up, nv[bp.ni], O, W).t,
                     brute |-> BruteForce(I(dt), up, bp.ni, O, W)]
    /\ UNCHANGED <<fp, pc, loc, obs>>

\* sol_test_side of side k of lump li, in the frame of the static body 0.
SideProbe(li, k, dt) ==
    /\ pc = "idle"
    /\ probe.kind = "none"
    /\ k < lv[li].sc
    /\ LET up == fp.uv[0]
           h  == sol_test_side(I(dt), up, lv[li], iv[lv[li].s0 + k], V3(0, 0, 0), V3(0, 0, 0))
       IN  probe' = [kind |-> "side", li |-> li, si |-> iv[lv[li].s0 + k], dt |-> I(dt),
                     t |-> h.t, T |-> h.T]
    /\ UNCHANGED <<fp, pc, loc, obs>>

NextGeom ==
    \E dt \in 1..MaxProbeDt :
        \/ \E bi \in DOMAIN fp.bv : NodeProbe(bi, dt)
        \/ \E li \in DOMAIN lv, k \in 0..1 : SideProbe(li, k, dt)

SpecGeom ==
    InitGeom /\ [][NextGeom]_vars

(***************************************************************************)
(* SpecSwch: two balls roll through two switches while the level is        *)
(* advanced and the switches are tested.  Switch 0 is continuous (t0 = 0)  *)
(* and visible, switch 1 is timed and invisible; paths 0 and 1 form a      *)
(* cycle, path 2 a cycle of its own.                                       *)
(***************************************************************************)
MaxDt ==
    2

MaxX ==
    4

SwchPaths(c) ==
    Arr(<<Path(V3(0, 8, 0), I(2), 0, c, 1),
          Path(V3(0, -4, 0), I(3), 1, c, 0),
          Path(V3(5, 5, 5), I(1), 0, c, 2)>>)

InitSwch ==
    /\ \E a \in {0, 1}, b \in {0, 1}, c \in {0, 1}, pi1 \in {1, 2} :
           fp = [pv |-> SwchPaths(c),
                 xv |-> Arr(<<Swch(V3(0, 0, 0), I(2), 0, I(0), I(0), a, a, 0, 0),
                              Swch(V3(1, 0, 0), I(3), pi1, I(2), I(0), b, b, 1, 0)>>),
                 bv |-> Arr(<<Body(-1, I(0), 0), Body(0, I(0), 3), Body(2, I(0), 3)>>),
                 uv |-> Arr(<<[Ball(<<I(-3), F(1, 2), I(0)>>, V3(1, 0, 0), I(1))
                                  EXCEPT !.w = V3(0, 0, -1)],
                              Ball(<<I(MaxX + 3), F(1, 2), I(0)>>, V3(-1, 0, 0), I(1))>>)]
    /\ pc = "idle"
    /\ loc = NoLoc
    /\ probe = NoProbe
    /\ obs = NoObs

\* The caller tests the switches against ball ui.
SwchTest(ui) ==
    /\ pc = "idle"
    /\ LET r == sol_swch_test(fp, ui)
       IN  /\ fp' = r.fp
           /\ obs' = [op |-> "swch_test", ui |-> ui, res |-> r.res, evs |-> r.evs]
    /\ UNCHANGED <<pc, loc, probe>>

\* The level advanced by dt with no collision, as sol_step does with what
\* remains of its time: bodies, then switches, then balls.
Advance(dt) ==
    /\ pc = "idle"
    /\ fle(fadd(fp.uv[0].p[1], I(dt)), I(MaxX))
    /\ LET f1 == sol_body_step(fp, I(dt))
           r2 == sol_swch_step(f1, I(dt))
       IN  /\ fp' = sol_ball_step(r2.fp, I(dt))
           /\ obs' = [op |-> "advance", dt |-> I(dt), evs |-> r2.evs]
    /\ UNCHANGED <<pc, loc, probe>>

NextSwch ==
    \/ \E ui \in DOMAIN fp.uv : SwchTest(ui)
    \/ \E dt \in 0..MaxDt : Advance(dt)

SpecSwch ==
    InitSwch /\ [][NextSwch]_vars

(***************************************************************************)
(* Spec: sol_step called for one ball after another, one action for its    *)
(* start, one for each iteration of its loop and one for its return.  Two  *)
(* balls of radius 1 rest on the floor under the ceiling, which comes down *)
(* at 3 units a second: from far above, or from y = 2, where it already    *)
(* touches them.  Gravity is 10 units a second squared and a call steps 1  *)
(* second.  The caller passes a null m, or, with the ceiling far above,    *)
(* its counter, which loc.m keeps from one call to the next.               *)
(***************************************************************************)
MaxCalls ==
    2

\* int c = 16: the iterations the loop may make.
StepCap ==
    16

Gravity ==
    V3(0, -10, 0)

StepDt ==
    I(1)

\* The low path of GeomPaths, and the same path 22 units higher.
StepPaths ==
    Arr(<<Path(V3(0, 8, 0), I(4), 0, 1, 1), Path(V3(0, -4, 0), I(4), 0, 1, 0),
          Path(V3(0, 30, 0), I(4), 0, 1, 3), Path(V3(0, 18, 0), I(4), 0, 1, 2)>>)

\* A timed switch half a second from expiry, which will disable the low path.
StepSwch ==
    Arr(<<Swch(V3(3, 0, 0), I(3), 0, I(2), F(1, 2), 0, 1, 0, 0)>>)

StepLevel(b1, vz) ==
    [pv |-> StepPaths,
     xv |-> StepSwch,
     bv |-> Arr(<<Body(-1, I(0), 5), b1>>),
     uv |-> Arr(<<[Ball(V3(3, 1, 0), V3(0, 0, 0), I(1)) EXCEPT !.w = V3(0, 0, 1)],
                  [Ball(V3(-3, 1, 0), V3(0, 0, vz), I(1)) EXCEPT !.w = V3(vz, 0, 0)]>>)]

\* With the ceiling far above, ball 0 rests on the floor or starts 5 above it.
InitStep ==
    /\ \E vz \in {1, 2} :
           \/ fp = StepLevel(Body(0, I(2), 3), vz) /\ loc = NoLoc
           \/ \E m \in {<<>>, <<0>>}, y0 \in {1, 6} :
                  /\ fp = [StepLevel(Body(2, I(0), 3), vz) EXCEPT !.uv[0].p = V3(3, y0, 0)]
                  /\ loc = [NoLoc EXCEPT !.m = m]
    /\ pc = "idle"
    /\ probe = NoProbe
    /\ obs = NoObs

\* The calls of sol_step made so far.
Calls ==
    IF obs.op = "none" THEN 0 ELSE obs.n

\* if (ui < fp->uc) fails: sol_step returns b = 0 at once.
StepSkip(ui, g, dt) ==
    /\ pc = "idle"
    /\ Calls < MaxCalls
    /\ ui >= Cardinality(DOMAIN fp.uv)
    /\ obs' = [op |-> "sol_step", n |-> Calls + 1, ui |-> ui, dt |-> dt, b |-> I(0),
               c |-> StepCap, m |-> loc.m, uv0 |-> fp.uv, log |-> <<>>]
    /\ UNCHANGED <<fp, pc, loc, probe>>

\* sol_step up to its loop: the locals are set and friction or gravity applied.
\*
\* With a non-null m and dt < 0.0005 the friction test takes "no contact
\* within dt" for a contact and reads P and V, which no test has written:
\* the caller here passes such a dt with a null m only.
StepBegin(ui, g, dt) ==
    /\ pc = "idle"
    /\ Calls < MaxCalls
    /\ ui < Cardinality(DOMAIN fp.uv)
    /\ loc.m # <<>> => fle(F(1, 2000), dt)
    /\ \E r \in {sol_step_friction(fp, ui, g, dt, loc.m)} :
           /\ fp' = [fp EXCEPT !.uv[ui] = r.up]
           /\ loc' = [ui |-> ui, g |-> g, dt |-> dt, m |-> r.m, c |-> StepCap,
                      tt |-> dt, b |-> I(0), a |-> fp.uv[ui].v, log |-> <<>>]
    /\ pc' = "loop"
    /\ obs' = [op |-> "call", n |-> Calls, uv0 |-> fp.uv]
    /\ UNCHANGED probe

\* A call made by sol_step with the time t, as the log keeps it.
Called(name, t) ==
    [f |-> name, t |-> t]

\* The three calls with the level advanced after the switches, before the
\* bodies and the balls.
sol_step_advance_swch_first(f, t) ==
    LET balls(f2) ==
            [fp  |-> sol_ball_step(f2, t),
             log |-> <<Called("sol_swch_step", t), Called("sol_body_step", t),
                       Called("sol_ball_step", t)>>]
        bodies(f1) ==
            The({balls(f2) : f2 \in {sol_body_step(f1, t)}})
    IN  The({bodies(f1) : f1 \in {sol_swch_step(f, t).fp}})

\* sol_body_step(fp, t); sol_swch_step(fp, t); sol_ball_step(fp, t): the
\* level after the three calls, and the calls in the order they are made.
sol_step_advance(f, t) ==
    LET balls(f2) ==
            [fp  |-> sol_ball_step(f2, t),
             log |-> <<Called("sol_body_step", t), Called("sol_swch_step", t),
                       Called("sol_ball_step", t)>>]
        switches(f1) ==
            The({balls(f2) : f2 \in {sol_swch_step(f1, t).fp}})
    IN  The({switches(f1) : f1 \in {sol_body_step(f, t)}})

\* nt = sol_test_file(tt, P, V, up, fp), with P and V.
LoopTest ==
    sol_test_file(loc.tt, fp.uv[loc.ui], fp)

\* The loop's condition with c > 0 left out.
LoopCond_uncapped ==
    flt(I(0), loc.tt) /\ flt(LoopTest.t, loc.tt)

\* c > 0 && tt > 0 && tt > (nt = sol_test_file(tt, P, V, up, fp))
LoopCond ==
    loc.c > 0 /\ flt(I(0), loc.tt) /\ flt(LoopTest.t, loc.tt)

\* One iteration of the loop.
StepLoop ==
    /\ pc = "loop"
    /\ LoopCond
    /\ \E h \in {LoopTest} :
       \E f3 \in {sol_step_advance(fp, h.t)} :
       \E r \in {sol_bounce(f3.fp.uv[loc.ui], h.T, h.V)} :
           /\ fp' = [f3.fp EXCEPT !.uv[loc.ui] = r.up]
           /\ loc' = [loc EXCEPT !.tt = fsub(loc.tt, h.t),
                                 !.b = IF flt(loc.b, r.d) THEN r.d ELSE loc.b,
                                 !.c = loc.c - 1,
                                 !.log = loc.log \o f3.log
                                             \o <<Called("sol_bounce", h.t)>>]
    /\ UNCHANGED <<pc, probe, obs>>

\* The loop has ended: the level is advanced by what is left of the time,
\* the pendulum is swung and b returned.
StepEnd ==
    /\ pc = "loop"
    /\ ~LoopCond
    /\ \E f3 \in {sol_step_advance(fp, loc.tt)} :
       \E up \in {f3.fp.uv[loc.ui]} :
           /\ fp' = [f3.fp EXCEPT !.uv[loc.ui] =
                                      sol_pendulum(up, v_sub(up.v, loc.a), loc.g, loc.dt)]
           /\ obs' = [op |-> "sol_step", n |-> obs.n + 1, ui |-> loc.ui, dt |-> loc.dt,
                      b |-> loc.b, c |-> loc.c, m |-> loc.m, uv0 |-> obs.uv0,
                      log |-> loc.log \o f3.log]
    /\ pc' = "idle"
    /\ loc' = [NoLoc EXCEPT !.m = loc.m]
    /\ UNCHANGED probe

Next ==
    \/ \E ui \in 0..2, dt \in {I(0), StepDt} :
           \/ StepSkip(ui, Gravity, dt)
           \/ StepBegin(ui, Gravity, dt)
    \/ StepLoop
    \/ StepEnd

Spec ==
    InitStep /\ [][Next]_vars

(***************************************************************************)
(* SpecCycle: the same operations on every path graph over NPath points.   *)
(* One timed switch starts anywhere in the graph; a ball rests inside it.  *)
(***************************************************************************)
NPath ==
    3

InitCycle ==
    /\ \E nxt \in [0..(NPath - 1) -> 0..(NPath - 1)], start \in 0..(NPath - 1),
          b \in {0, 1}, c \in {0, 1} :
           fp = [pv |-> [i \in 0..(NPath - 1) |-> Path(V3(i, 0, 0), I(2), 0, c, nxt[i])],
                 xv |-> Arr(<<Swch(V3(0, 0, 0), I(3), start, I(2), I(0), b, b, 0, 0)>>),
                 bv |-> Arr(<<Body(-1, I(0), 0)>>),
                 uv |-> Arr(<<Ball(<<I(0), F(1, 2), I(0)>>, V3(0, 0, 0), I(1))>>)]
    /\ pc = "idle"
    /\ loc = NoLoc
    /\ probe = NoProbe
    /\ obs = NoObs

SpecCycle ==
    InitCycle /\ [][NextSwch]_vars

(***************************************************************************)
(* SpecBounce: sol_bounce as a function of the ball, the point of impact   *)
(* and the velocity of the surface.  The ball's centre lies off the point  *)
(* of impact along an upright or an oblique direction of rational length;  *)
(* velocities have integer components up to MaxSpeed.                      *)
(***************************************************************************)
MaxSpeed ==
    1

Speeds ==
    {<<I(x), I(y), I(z)>> : x \in -MaxSpeed..MaxSpeed, y \in -MaxSpeed..MaxSpeed,
                            z \in {0, MaxSpeed}}

\* The offsets of the ball's centre from the point of impact: lengths 1, 5, 2, 7.
BounceOffsets ==
    {V3(0, 1, 0), V3(3, 4, 0), V3(0, 0, -2), V3(2, 3, 6)}

InitBounce ==
    /\ \E v \in Speeds, rad \in {1, 2} :
           fp = [pv |-> GeomPaths(0, 1),
                 xv |-> GeomSwch,
                 bv |-> Arr(<<Body(-1, I(0), 0)>>),
                 uv |-> Arr(<<Ball(V3(1, 2, 3), v, I(rad))>>)]
    /\ pc = "idle"
    /\ loc = NoLoc
    /\ probe = NoProbe
    /\ obs = NoObs

\* sol_bounce of ball 0 at the point of impact q on a surface moving at w.
Bounce(q, w) ==
    /\ pc = "idle"
    /\ probe.kind = "none"
    /\ \E r \in {sol_bounce(fp.uv[0], q, w)} :
           /\ fp' = [fp EXCEPT !.uv[0] = r.up]
           /\ probe' = [kind |-> "bounce", up |-> fp.uv[0], q |-> q, w |-> w, d |-> r.d]
    /\ UNCHANGED <<pc, loc, obs>>

NextBounce ==
    \E off \in BounceOffsets, w \in Speeds : Bounce(v_sub(fp.uv[0].p, off), w)

SpecBounce ==
    InitBounce /\ [][NextBounce]_vars

\* The path points reached from s by following pi, s included.
RECURSIVE ReachFrom(_, _, _)
ReachFrom(pvv, s, seen) ==
    IF s \in seen THEN seen ELSE ReachFrom(pvv, pvv[s].pi, seen \cup {s})

\* s lies on a cycle of pi: following pi from its successor leads back to s.
OnCycle(pvv, s) ==
    s \in ReachFrom(pvv, pvv[s].pi, {})

CycleOf(pvv, s) ==
    ReachFrom(pvv, s, {})

Events ==
    IF obs.op \in {"swch_test", "advance"}
    THEN {obs.evs[i] : i \in 1..Len(obs.evs)}
    ELSE {}

\* The loop counter of sol_step, while the call runs and when it has returned.
CounterInRange ==
    /\ pc = "loop" => loc.c \in 0..StepCap
    /\ obs.op = "sol_step" => (StepCap - obs.c) \in 0..StepCap

\* How one step of sol_step changes the loop counter.
CounterStep ==
    /\ (pc = "idle" /\ pc' = "loop") => loc'.c = StepCap
    /\ (pc = "loop" /\ pc' = "loop") => (loc.c > 0 /\ loc'.c = loc.c - 1)
    /\ (pc = "loop" /\ loc.c = 0) => pc' = "idle"

(***************************************************************************)
(* C1: one call of sol_step makes at most 16 iterations of its loop: the   *)
(* counter c starts at 16, every iteration is made with c > 0 and lowers c *)
(* by one, and with c = 0 the call goes on to return whatever the probe    *)
(* reports.                                                                *)
(***************************************************************************)
C1_LoopCapped ==
    []CounterInRange /\ [][CounterStep]_vars

\* The counter has run out while the probe still reports a contact at time 0,
\* before the time that remains.
C1_Witness ==
    /\ pc = "loop"
    /\ loc.c = 0
    /\ flt(I(0), loc.tt)
    /\ LoopTest.t = I(0)

\* A call of sol_step has just returned.
Returned ==
    obs.op = "sol_step"

\* The balls the call was not made for.
OtherBalls ==
    IF Returned THEN DOMAIN fp.uv \ {obs.ui} ELSE {}

(***************************************************************************)
(* C4: a call sol_step(fp, g, dt, ui, m) leaves the velocity, the angular  *)
(* velocity, the radius and the pendulum of every other ball as they were, *)
(* but moves every other ball by its velocity times dt and turns its basis *)
(* by its angular velocity over dt; a call with no such ball ui changes no *)
(* ball.                                                                   *)
(***************************************************************************)
C4_OtherBallsAdvance ==
    \A j \in OtherBalls :
        LET u0 == obs.uv0[j]
            u  == fp.uv[j]
        IN  /\ u.v = u0.v
            /\ u.w = u0.w
            /\ u.r = u0.r
            /\ u.E = u0.E
            /\ IF obs.ui \in DOMAIN fp.uv
               THEN /\ u.p = [i \in 1..3 |-> fadd(u0.p[i], fmul(u0.v[i], obs.dt))]
                    /\ u.e = sol_rotate(u0.e, u0.w, obs.dt)
               ELSE u.p = u0.p /\ u.e = u0.e

\* C4 as stated: every other ball is as it was before the call.
C4_OtherBallsUntouched ==
    \A j \in OtherBalls : fp.uv[j] = obs.uv0[j]

\* The first call, for ball 0, has moved and turned ball 1.
C4_Witness ==
    /\ Returned
    /\ obs.n = 1
    /\ obs.ui = 0
    /\ fp.uv[1].p # obs.uv0[1].p
    /\ fp.uv[1].e # obs.uv0[1].e

(***************************************************************************)
(* C2: when a switch's path index lies on a cycle of length N, the         *)
(* traverser run by sol_swch_step (expiry) or sol_swch_test (entry) ends   *)
(* after at most N iterations, has written the new value to every point of *)
(* the cycle and has written no point outside it.                          *)
(***************************************************************************)
C2_CycleCovered ==
    \A evt \in Events :
        LET s == fp.xv[evt.xi].pi
        IN  (evt.hit /\ OnCycle(fp.pv, s)) =>
                /\ evt.w = CycleOf(fp.pv, s)
                /\ evt.n <= Cardinality(CycleOf(fp.pv, s))
                /\ \A i \in CycleOf(fp.pv, s) : fp.pv[i].f = evt.val

\* An expiry has just been broadcast over a cycle of every path point but one,
\* leaving the point outside it with the other value.
C2_Witness ==
    /\ obs.op = "advance"
    /\ \E evt \in Events :
           /\ evt.hit
           /\ OnCycle(fp.pv, fp.xv[evt.xi].pi)
           /\ Cardinality(CycleOf(fp.pv, fp.xv[evt.xi].pi)) = NPath - 1
           /\ \E i \in DOMAIN fp.pv : fp.pv[i].f # evt.val

(***************************************************************************)
(* C3: for any body frame (w # 0 included), the time sol_test_node returns *)
(* from a subtree's root equals the least time sol_test_lump returns over  *)
(* every lump of the subtree: pruning by sol_test_fore / sol_test_back     *)
(* never hides a contact.                                                  *)
(***************************************************************************)
C3_PruningNeverHides ==
    probe.kind = "node" => probe.t = probe.brute

\* The same for the frames at rest (w = 0) only.
C3_StaticFrameSafe ==
    (probe.kind = "node" /\ probe.w = V3(0, 0, 0)) => probe.t = probe.brute

(***************************************************************************)
(* The switch volume, from the squared horizontal distance of the ball.    *)
(***************************************************************************)
Dist2(xp, up) ==
    LET dx == fsub(up.p[1], xp.p[1])
        dz == fsub(up.p[3], xp.p[3])
    IN  fadd(fmul(dx, dx), fmul(dz, dz))

InBand(xp, up) ==
    flt(xp.p[2], up.p[2]) /\ flt(up.p[2], fadd(xp.p[2], F(SWCH_HEIGHT, 2)))

\* The ball is closer to the switch's axis than the radius rad, and in its band.
Within(xp, up, rad) ==
    /\ flt(I(0), rad)
    /\ flt(Dist2(xp, up), fmul(rad, rad))
    /\ InBand(xp, up)

\* Wholly inside the switch: the entry radius is xp.r - ball_r.
Inside(xp, up) ==
    Within(xp, up, fsub(xp.r, up.r))

\* Touching the switch: the outer radius is xp.r + ball_r.
Touching(xp, up) ==
    Within(xp, up, fadd(xp.r, up.r))

\* The per-switch records of the last sol_swch_test.
TestEvents ==
    IF obs.op = "swch_test" THEN Events ELSE {}

\* The per-switch records of the last sol_swch_step.
StepEvents ==
    IF obs.op = "advance" THEN Events ELSE {}

(***************************************************************************)
(* C5: sol_swch_test toggles a switch exactly when the ball is inside it,  *)
(* e is clear and the switch is continuous or at its default.  A toggle    *)
(* inverts f, writes the new f to every path point of the switch's cycle,  *)
(* sets t to t0 when the new f differs from f0 and leaves it otherwise,    *)
(* and sets e exactly when t0 = 0.  A switch that does not toggle keeps f  *)
(* and t and writes no path flag.  The call returns 1 exactly when a       *)
(* visible switch toggled.                                                 *)
(***************************************************************************)
C5_ToggleOnEntry ==
    /\ \A evt \in TestEvents :
           LET xp == evt.pre
               xq == evt.post
               up == fp.uv[obs.ui]
           IN  /\ evt.hit <=> /\ Inside(xp, up)
                              /\ xp.e = 0
                              /\ (xp.t0 = I(0) \/ xp.f = xp.f0)
               /\ evt.hit =>
                      /\ xq.f = 1 - xp.f
                      /\ evt.val = xq.f
                      /\ CycleOf(fp.pv, xp.pi) \subseteq evt.w
                      /\ xq.t = (IF xq.f # xp.f0 THEN xp.t0 ELSE xp.t)
                      /\ (xq.e = 1) <=> (xp.t0 = I(0))
               /\ ~evt.hit =>
                      /\ xq.f = xp.f
                      /\ xq.t = xp.t
                      /\ evt.w = {}
    /\ obs.op = "swch_test" =>
           ((obs.res = 1) <=> (\E evt \in TestEvents : evt.hit /\ evt.pre.i = 0))

\* Only the invisible timed switch toggled: its countdown started, e stayed
\* clear and the call returned 0.
C5_Witness ==
    /\ obs.op = "swch_test"
    /\ obs.res = 0
    /\ \E evt \in TestEvents :
           /\ evt.hit
           /\ evt.pre.i = 1
           /\ evt.post.t = evt.pre.t0
           /\ evt.post.e = 0

(***************************************************************************)
(* C6: in sol_swch_step a switch whose t was > 0 and is <= 0 after dt is   *)
(* subtracted has f reset to f0, is left with no countdown running         *)
(* (t <= 0), and every path point of its cycle has the flag f0.  A switch  *)
(* whose t was already <= 0 is left as it was and writes no path flag.     *)
(***************************************************************************)
C6_ExpiryBroadcastOnce ==
    \A evt \in StepEvents :
        LET xp == evt.pre
            xq == evt.post
            expired == flt(I(0), xp.t) /\ fle(fsub(xp.t, obs.dt), I(0))
        IN  /\ expired =>
                   /\ evt.hit
                   /\ xq.f = xp.f0
                   /\ fle(xq.t, I(0))
                   /\ evt.val = xp.f0
                   /\ CycleOf(fp.pv, xp.pi) \subseteq evt.w
                   /\ \A i \in CycleOf(fp.pv, xp.pi) : fp.pv[i].f = xp.f0
            /\ ~expired => ~evt.hit /\ evt.w = {} /\ xq.f = xp.f
            /\ fle(xp.t, I(0)) => xq = xp

\* A countdown has just expired with time to spare: t is left below zero.
C6_Witness ==
    \E evt \in StepEvents :
        /\ evt.hit
        /\ evt.pre.f # evt.pre.f0
        /\ flt(evt.post.t, I(0))

\* Every body with a path has its t within the duration of its path point.
BodyTimeInRange ==
    \A i \in DOMAIN fp.bv :
        LET bp == fp.bv[i]
        IN  bp.pi >= 0 => fle(I(0), bp.t) /\ flt(bp.t, fp.pv[bp.pi].t)

\* What one sol_body_step by dt does to each body.
BodyStepped ==
    obs'.op = "advance" =>
        \A i \in DOMAIN fp.bv :
            LET bp == fp.bv[i]
                bq == fp'.bv[i]
                moving == bp.pi >= 0 /\ fp.pv[bp.pi].f # 0
            IN  IF moving
                THEN IF fle(fp.pv[bp.pi].t, fadd(bp.t, obs'.dt))
                     THEN bq.t = I(0) /\ bq.pi = fp.pv[bp.pi].pi
                     ELSE bq.t = fadd(bp.t, obs'.dt) /\ bq.pi = bp.pi
                ELSE bq = bp

(***************************************************************************)
(* C7: every body's t stays in [0, D), D the duration of its current path  *)
(* point.  A sol_body_step by dt resets t to 0 and moves the body to the   *)
(* successor path point when t + dt reaches D, adds dt to t otherwise, and *)
(* leaves a body with a disabled path point or with no path as it was.     *)
(***************************************************************************)
C7_BodyTimeWraps ==
    []BodyTimeInRange /\ [][BodyStepped]_vars

\* A body has just been moved on to the successor of its first path point,
\* while the body with no path stayed as it was.
C7_Witness ==
    /\ obs.op = "advance"
    /\ fp.bv[1].pi = 1
    /\ fp.bv[1].t = I(0)
    /\ fp.bv[0].pi = -1

(***************************************************************************)
(* C10: for a continuous switch (t0 = 0), e set by an entry stays set and  *)
(* blocks a toggle for as long as the ball tested is within the outer      *)
(* radius xp.r + ball_r, which is wider than the entry radius              *)
(* xp.r - ball_r; a test that finds the ball outside the outer radius      *)
(* clears e, and the next entry toggles the switch again.                  *)
(***************************************************************************)
C10_LatchUntilOuterRadius ==
    \A evt \in TestEvents :
        LET xp == evt.pre
            xq == evt.post
            up == fp.uv[obs.ui]
        IN  xp.t0 = I(0) =>
                /\ (xp.e = 1 /\ Touching(xp, up)) =>
                       ~evt.hit /\ xq.e = 1 /\ xq.f = xp.f
                /\ (xp.e = 1 /\ ~Touching(xp, up)) =>
                       ~evt.hit /\ xq.e = 0 /\ xq.f = xp.f
                /\ (xp.e = 0 /\ Inside(xp, up)) =>
                       /\ evt.hit /\ xq.e = 1 /\ xq.f = 1 - xp.f
                       /\ CycleOf(fp.pv, xp.pi) \subseteq evt.w
                       /\ evt.val = xq.f

\* C10 as stated: e is clear after any test that finds the ball
\* outside the entry radius.
C10_ClearedOutsideEntryRadius ==
    \A evt \in TestEvents :
        (evt.pre.t0 = I(0) /\ ~Inside(evt.pre, fp.uv[obs.ui])) => evt.post.e = 0

\* A re-entry has toggled the continuous switch back to its default.
C10_Witness ==
    \E evt \in TestEvents :
        /\ evt.pre.t0 = I(0)
        /\ evt.hit
        /\ evt.post.f = evt.pre.f0
        /\ evt.post.e = 1

\* The body whose frame the last probe was made in.
ProbedBody ==
    fp.bv[probe.bi]

\* The probed body's current path point is disabled.
ProbedDisabled ==
    /\ probe.kind = "node"
    /\ ProbedBody.pi >= 0
    /\ fp.pv[ProbedBody.pi].f = 0

\* The point the fraction k of the way from path point pp to its successor.
Along(pp, k) ==
    [i \in 1..3 |-> fadd(pp.p[i], fmul(fsub(fp.pv[pp.pi].p[i], pp.p[i]), k))]

\* The position interpolated at the probed body's local time.
FrozenAt ==
    LET pp == fp.pv[ProbedBody.pi]
        k  == fdiv(ProbedBody.t, pp.t)
    IN  Along(pp, IF pp.s # 0
                  THEN fsub(fmul(I(3), fmul(k, k)), fmul(I(2), fmul(k, fmul(k, k))))
                  ELSE k)

(***************************************************************************)
(* C8: for a body whose current path point is disabled, sol_body_v gives   *)
(* the zero velocity and sol_body_p the position interpolated at the       *)
(* body's frozen local time t, which is the path point's own p when t = 0. *)
(***************************************************************************)
C8_DisabledFrozenInPlace ==
    ProbedDisabled =>
        /\ probe.w = V3(0, 0, 0)
        /\ probe.o = FrozenAt
        /\ ProbedBody.t = I(0) => probe.o = fp.pv[ProbedBody.pi].p

\* C8 as stated: the position is the path point's own p whatever t is.
C8_DisabledAtReference ==
    ProbedDisabled =>
        /\ probe.w = V3(0, 0, 0)
        /\ probe.o = fp.pv[ProbedBody.pi].p

\* A body frozen a quarter of the way along a smooth segment has been probed.
C8_Witness ==
    /\ ProbedDisabled
    /\ ProbedBody.t = I(1)
    /\ fp.pv[ProbedBody.pi].s = 1
    /\ probe.o # fp.pv[ProbedBody.pi].p

\* The side probe of the example scenario.
PlaneExample ==
    /\ probe.kind = "side"
    /\ probe.li = 0
    /\ probe.si = 0
    /\ probe.dt = I(2)
    /\ fp.uv[0].p = V3(0, 1, 0)
    /\ fp.uv[0].v = V3(0, -1, 0)
    /\ fp.uv[0].r = F(1, 10)

(***************************************************************************)
(* C9: for the ball at (0, 1, 0) with velocity (0, -1, 0) and radius 1/10  *)
(* over the static plane n = (0, 1, 0), d = 0 and the window 2, the plane  *)
(* test gives the contact time 9/10 and the contact point (0, 0, 0) on the *)
(* plane; it is the ball's centre that is at y = 1/10 at that time.        *)
(***************************************************************************)
C9_PlaneContactOnPlane ==
    PlaneExample =>
        /\ probe.t = F(9, 10)
        /\ probe.T = V3(0, 0, 0)
        /\ fadd(fp.uv[0].p[2], fmul(fp.uv[0].v[2], probe.t)) = F(1, 10)

\* C9 as stated: the contact point's y coordinate is 1/10.
C9_PlaneContactAtCentre ==
    PlaneExample => probe.t = F(9, 10) /\ probe.T[2] = F(1, 10)

\* The plane test of the example has been made and has found the contact.
C9_Witness ==
    PlaneExample /\ probe.t = F(9, 10)

\* The last sol_bounce: its normal, the normal velocities of the ball before
\* (vn) and after (vn1) and of the surface (wn).
Bounced ==
    probe.kind = "bounce"

BounceN ==
    v_nrm(v_sub(probe.up.p, probe.q))

BounceVn ==
    v_dot(probe.up.v, BounceN)

BounceVn1 ==
    v_dot(fp.uv[0].v, BounceN)

BounceWn ==
    v_dot(probe.w, BounceN)

\* The part of v across the normal n.
Tangential(v, n) ==
    v_sub(v, v_scl(n, v_dot(v, n)))

(***************************************************************************)
(* C11: after sol_bounce the ball's velocity is v + 1.7 (wn - vn) n; its   *)
(* normal velocity relative to the surface is reversed and is 0.7 of what  *)
(* it was (less than an elastic reflection gives); the tangential velocity *)
(* is as it was; the centre is one radius from the point of impact along n *)
(* and the value returned is |n . (v - w)|.                                *)
(***************************************************************************)
C11_BounceDamped ==
    Bounced =>
        /\ fp.uv[0].v = v_mad(probe.up.v, BounceN, fmul(F(17, 10), fsub(BounceWn, BounceVn)))
        /\ fsub(BounceVn1, BounceWn) = fmul(F(-7, 10), fsub(BounceVn, BounceWn))
        /\ BounceVn # BounceWn =>
               flt(fabsf(fsub(BounceVn1, BounceWn)), fabsf(fsub(BounceVn, BounceWn)))
        /\ Tangential(fp.uv[0].v, BounceN) = Tangential(probe.up.v, BounceN)
        /\ v_sub(fp.uv[0].p, probe.q) = v_scl(BounceN, probe.up.r)
        /\ v_dot(v_sub(fp.uv[0].p, probe.q), v_sub(fp.uv[0].p, probe.q))
               = fmul(probe.up.r, probe.up.r)
        /\ probe.d = fabsf(fsub(BounceVn, BounceWn))

\* C11 as stated: the outgoing normal speed relative to the surface exceeds
\* the incoming one.
C11_BounceExceedsElastic ==
    (Bounced /\ BounceVn # BounceWn) =>
        flt(fabsf(fsub(BounceVn, BounceWn)), fabsf(fsub(BounceVn1, BounceWn)))

\* A bounce off an oblique normal on a moving surface, with a normal and a
\* tangential velocity relative to it.
C11_Witness ==
    /\ Bounced
    /\ BounceN = <<F(3, 5), F(4, 5), I(0)>>
    /\ BounceWn # I(0)
    /\ BounceVn # BounceWn
    /\ Tangential(probe.up.v, BounceN) # V3(0, 0, 0)

\* The sum of the times of a list of logged calls.
RECURSIVE SumT(_)
SumT(l) ==
    IF l = <<>> THEN I(0) ELSE fadd(l[1].t, SumT(Tail(l)))

\* The calls of the function name in the log l.
CallsOf(l, name) ==
    SelectSeq(l, LAMBDA e : e.f = name)

\* The calls sol_step makes for one contact, in order.
SubStepCalls ==
    <<"sol_body_step", "sol_swch_step", "sol_ball_step", "sol_bounce">>

\* The log l is made of whole contacts, then the first `last` calls of one
\* more; the calls of a contact are in order and are given the same time.
InOrder(l, last) ==
    /\ Len(l) % 4 = last
    /\ \A i \in 1..Len(l) :
           /\ l[i].f = SubStepCalls[((i - 1) % 4) + 1]
           /\ l[i].t = l[4 * ((i - 1) \div 4) + 1].t

\* The time left before contact j of the log l of a call made with dt.
LeftBefore(l, dt, j) ==
    fsub(dt, SumT([i \in 1..(j - 1) |-> l[4 * i - 3]]))

\* Every contact time nt of the log satisfies 0 <= nt < tt.
ContactsInTime(l, dt) ==
    \A j \in 1..(Len(l) \div 4) :
        /\ fle(I(0), l[4 * j - 3].t)
        /\ flt(l[4 * j - 3].t, LeftBefore(l, dt, j))

\* The time accounts of sol_step while it runs and when it has returned.
TimeAccounted ==
    /\ pc = "loop" =>
           /\ fle(I(0), loc.tt)
           /\ InOrder(loc.log, 0)
           /\ Len(loc.log) = 4 * (StepCap - loc.c)
           /\ ContactsInTime(loc.log, loc.dt)
           /\ fadd(SumT(CallsOf(loc.log, "sol_body_step")), loc.tt) = loc.dt
    /\ (obs.op = "sol_step" /\ obs.ui \in DOMAIN fp.uv) =>
           /\ InOrder(obs.log, 3)
           /\ Len(obs.log) = 4 * (StepCap - obs.c) + 3
           /\ ContactsInTime(obs.log, obs.dt)
           /\ fle(I(0), obs.log[Len(obs.log)].t)
           /\ \A name \in {"sol_body_step", "sol_swch_step", "sol_ball_step"} :
                  SumT(CallsOf(obs.log, name)) = obs.dt

\* What a step of sol_step that advances the level by t shows of the order
\* of its calls: the bodies move by the path flags as they were before the
\* switches were stepped, and the ball's basis turns by the angular velocity
\* it had before the bounce.
SubStepOrder ==
    (pc = "loop" /\ pc' = "loop") =>
        LET t == loc'.log[Len(loc'.log)].t
        IN  /\ fp'.bv = sol_body_step(fp, t).bv
            /\ fp'.xv = sol_swch_step(fp, t).fp.xv
            /\ fp'.uv[loc.ui].e = sol_rotate(fp.uv[loc.ui].e, fp.uv[loc.ui].w, t)
            /\ loc'.tt = fsub(loc.tt, t)

RestOrder ==
    (pc = "loop" /\ pc' = "idle") =>
        LET t == obs'.log[Len(obs'.log)].t
        IN  /\ t = loc.tt
            /\ fp'.bv = sol_body_step(fp, t).bv
            /\ fp'.xv = sol_swch_step(fp, t).fp.xv
            /\ fp'.uv[loc.ui].p = v_mad(fp.uv[loc.ui].p, fp.uv[loc.ui].v, t)

(***************************************************************************)
(* C12: in a call of sol_step for a ball of the level with dt >= 0, every  *)
(* contact time nt used by the loop has 0 <= nt < tt, tt is never          *)
(* negative, and the times given to sol_body_step, to sol_swch_step and to *)
(* sol_ball_step (the contact times and the rest tt) add up to dt, whether *)
(* the loop ends for want of a contact or at its cap; each time the bodies *)
(* are advanced first, then the switches, then the balls, and the bounce   *)
(* comes after the three.                                                  *)
(***************************************************************************)
C12_TimeConserved ==
    []TimeAccounted /\ [][SubStepOrder /\ RestOrder]_vars

\* A call has returned after a contact later than its start (0 < nt < dt)
\* and a rest of the time with no contact.
C12_Witness ==
    /\ obs.op = "sol_step"
    /\ obs.ui \in DOMAIN fp.uv
    /\ Len(obs.log) = 7
    /\ flt(I(0), obs.log[1].t)
    /\ flt(I(0), obs.log[7].t)

\* A timed switch: t0 > 0.
Timed(xp) ==
    flt(I(0), xp.t0)

\* Every timed switch away from its default is counting down from at most
\* t0, and no timed switch has its entered flag set.
TimedCounting ==
    \A xi \in DOMAIN fp.xv :
        LET xp == fp.xv[xi]
        IN  Timed(xp) =>
                /\ xp.e = 0
                /\ xp.f # xp.f0 => flt(I(0), xp.t) /\ fle(xp.t, xp.t0)

\* What the last sol_swch_test did to the timed switches.
TimedTested ==
    \A evt \in TestEvents :
        LET xp == evt.pre
            xq == evt.post
        IN  Timed(xp) =>
                /\ evt.hit => /\ xp.f = xp.f0
                              /\ xq.f # xp.f0
                              /\ xq.t = xp.t0
                /\ xp.f # xp.f0 => ~evt.hit /\ xq = xp /\ evt.w = {}
                /\ (xp.f = xp.f0 /\ Inside(xp, fp.uv[obs.ui])) => evt.hit

\* What the last sol_swch_step by dt did to the timed switches away from
\* their default: t0 - t is the time stepped since the toggle.
TimedStepped ==
    \A evt \in StepEvents :
        LET xp == evt.pre
            xq == evt.post
        IN  (Timed(xp) /\ xp.f # xp.f0) =>
                IF flt(I(0), fsub(xp.t, obs.dt))
                THEN ~evt.hit /\ xq.f = xp.f /\ xq.t = fsub(xp.t, obs.dt)
                ELSE /\ evt.hit
                     /\ xq.f = xp.f0
                     /\ \A i \in CycleOf(fp.pv, xp.pi) : fp.pv[i].f = xp.f0

(***************************************************************************)
(* C13: a timed switch (t0 > 0) that starts at its default is toggled by   *)
(* sol_swch_test only from f0 to the other value, with t set to t0; while  *)
(* f # f0 its t is > 0, sol_swch_test leaves it and writes no path flag    *)
(* for it, and each sol_swch_step by dt takes dt off t until, the time     *)
(* stepped since the toggle having reached t0, f is back at f0 with every  *)
(* path point of its cycle at f0; its entered flag is never set, so a ball *)
(* inside it when it is back at its default toggles it at the next test.   *)
(***************************************************************************)
C13_TimedSwitchReturns ==
    TimedCounting /\ TimedTested /\ TimedStepped

\* A timed switch whose countdown had run out with time to spare (t < 0)
\* has been toggled again by a ball inside it.
C13_Witness ==
    \E evt \in TestEvents :
        /\ Timed(evt.pre)
        /\ flt(evt.pre.t, I(0))
        /\ evt.hit
        /\ evt.post.t = evt.pre.t0

====
